---- MODULE Spec2Model ----
(***************************************************************************)
(* HaloPotential.py: the PowerLaw, NFW and NFW_withGalaxy potentials.      *)
(*                                                                         *)
(* Numbers.  The program computes in floating point with astropy units.    *)
(* Here every quantity is an integer in a fixed unit, or an exact fraction *)
(* <<numerator, denominator>>:                                             *)
(*   length     LU, an arbitrary unit of length (radii are whole LU)       *)
(*   mass       deci-MU, MU = (4 pi / 3) critical_density(z) LU^3          *)
(*   density    milli-DU, DU = MU / (4 pi LU^3)                            *)
(*   pure numbers (ln, exp, slopes, the profile shape): millionths         *)
(*   overdensities (mean density / critical density): hundredths           *)
(*   velocities: G = 1, and a velocity is carried by its exact square      *)
(* Unit conversions (.to('kpc'), .to('Msun'), ...) change no value and are *)
(* not modelled.  Divisions round down, as the comments of each operator   *)
(* say; floating-point rounding itself is not modelled.                    *)
(***************************************************************************)
EXTENDS Integers, Sequences, FiniteSets, TLC

VARIABLES pc, self, built, ctor, call, result

vars == <<pc, self, built, ctor, call, result>>

-----------------------------------------------------------------------------
(* Bounds of the explored inputs. *)
MaxRvir == 8
MaxCvir2 == 8
MaxFdr == 3
MaxSlope2 == 2
MaxVc == 2
MaxPowerLawRvir == 2

-----------------------------------------------------------------------------
(* Arithmetic *)

Micro == 1000 * 1000

Abs(x) == IF x < 0 THEN -x ELSE x

Sign(x) == IF x < 0 THEN -1 ELSE 1

RECURSIVE QuoRem(_, _, _)
(* <<q, r>> with a*b = q*c + r and 0 <= r < c, without forming a*b. *)
QuoRem(a, b, c) ==
    IF b = 0 THEN <<0, 0>>
    ELSE LET h == QuoRem(a, b \div 2, c)
             t == 2 * h[2] + (b % 2) * (a % c)
         IN  <<2 * h[1] + (b % 2) * (a \div c) + t \div c, t % c>>

(* floor(a*b/c) for a, b >= 0 and c > 0 (the operands are evaluated once); *)
(* the product is formed only where it fits 32 bits                        *)
MulDiv(a, b, c) ==
    CHOOSE q \in {IF x[1] = 0 \/ x[2] <= 2147483647 \div x[1]
                    THEN (x[1] * x[2]) \div x[3]
                    ELSE QuoRem(x[1], x[2], x[3])[1] : x \in {<<a, b, c>>}} : TRUE

(* a*b/c rounded toward zero, a of either sign *)
SMulDiv(a, b, c) == Sign(a) * MulDiv(Abs(a), b, c)

(* numpy.log on a ratio of whole numbers p/q, in millionths. *)
LnTable ==
  << 0, 693147, 1098612, 1386294, 1609438, 1791759, 1945910, 2079442,
     2197225, 2302585, 2397895, 2484907, 2564949, 2639057, 2708050, 2772589,
     2833213, 2890372, 2944439, 2995732, 3044522, 3091042, 3135494, 3178054,
     3218876, 3258097, 3295837, 3332205, 3367296, 3401197, 3433987, 3465736,
     3496508, 3526361, 3555348, 3583519, 3610918, 3637586, 3663562, 3688879,
     3713572, 3737670, 3761200, 3784190, 3806662, 3828641, 3850148, 3871201,
     3891820, 3912023, 3931826, 3951244, 3970292, 3988984, 4007333, 4025352,
     4043051, 4060443, 4077537, 4094345, 4110874, 4127134, 4143135, 4158883 >>

ln(p, q) == LnTable[p] - LnTable[q]

(* numpy.e ** -(j/4), in millionths; 0 beyond the table. *)
ExpTable ==
  << 1000000, 778801, 606531, 472367, 367879, 286505, 223130, 173774,
     135335, 105399, 82085, 63928, 49787, 38774, 30197, 23518,
     18316, 14264, 11109, 8652, 6738, 5248, 4087, 3183,
     2479, 1930, 1503, 1171, 912, 710, 553, 431,
     335, 261, 203, 158, 123, 96, 75, 58,
     45, 35, 28, 21, 17, 13, 10, 8,
     6, 5, 4, 3, 2, 2, 1, 1,
     1 >>

(* e ** -(r/Rd) for Rd dividing 4 LU *)
ExpNeg(r, Rd) ==
    LET j == (4 * r) \div Rd
    IN  IF j + 1 > Len(ExpTable) THEN 0 ELSE ExpTable[j + 1]

(* x ** (1/3.) of a perfect cube *)
Cbrt(x) == CHOOSE y \in 0..64 : y * y * y = x

(* Variant of arange that includes the stop when it is start + k step.     *)
arange_closed(start, stop, step) ==
    LET n == IF stop >= start THEN ((stop - start) \div step) + 1 ELSE 0
    IN  [i \in 1..n |-> start + (i - 1) * step]

(* numpy.arange(start, stop, step): ceil((stop - start)/step) points       *)
(* start, start + step, ...; the stop itself is never one of them.         *)
arange(start, stop, step) ==
    LET n == IF stop > start THEN ((stop - start) + step - 1) \div step ELSE 0
    IN  [i \in 1..n |-> start + (i - 1) * step]

RECURSIVE Bisect(_, _, _, _)
Bisect(a, v, lo, hi) ==
    IF lo >= hi THEN lo
    ELSE LET mid == lo + ((hi - lo) \div 2)
         IN  IF a[mid + 1] < v THEN Bisect(a, v, mid + 1, hi)
                               ELSE Bisect(a, v, lo, mid)

(* numpy.searchsorted(a, v), side='left': a 0-based insertion index found  *)
(* by bisection; on an ascending a, the first i with a[i] >= v.            *)
searchsorted(a, v) == Bisect(a, v, 0, Len(a))

Neg(a) == [i \in DOMAIN a |-> -a[i]]

RECURSIVE SumSeq(_)
SumSeq(s) == IF Len(s) = 0 THEN 0 ELSE s[1] + SumSeq(Tail(s))

-----------------------------------------------------------------------------
(* Cosmology (astropy Planck15), at the redshifts explored. *)

Redshifts == {0, 10}

(* cosmo.Om(z), in hundredths: 0.3075 at z = 0 and 0.995 at z = 10, taken   *)
(* as 0.31 and 0.99                                                        *)
Om(z) == IF z = 0 THEN 31 ELSE 99

(* Bryan & Norman 98: 18 pi^2 + 82 x - 39 x^2, x = Om(z) - 1; in tenths *)
Delta_c(s) ==
    LET x == Om(s.z) - 100
    IN  (1776529 + 8200 * x - 39 * x * x) \div 1000

-----------------------------------------------------------------------------
(* class NFW: the computations, on one radius r (whole LU) *)

rvir(s) == Cbrt(s.Mvir \div Delta_c(s))

r_scale(s) == (2 * rvir(s)) \div s.cvir2

(* Variant of rho2rho_scale without the factor 4: 1 / ((r/r_scale) (1 + r/r_scale)^2). *)
rho2rho_scale_unit(s, r) ==
    LET rs == r_scale(s)
    IN  MulDiv(Micro, rs * rs * rs, r * (rs + r) * (rs + r))

(* 4 / ((r/r_scale) (1 + r/r_scale)^2), in millionths *)
rho2rho_scale(s, r) ==
    LET rs == r_scale(s)
    IN  MulDiv(4 * Micro, rs * rs * rs, r * (rs + r) * (rs + r))

(* ln(1 + r/r_scale) - (r_scale/r + 1)^-1, in millionths *)
MassShape(s, r) ==
    LET rs == r_scale(s)
    IN  ln(rs + r, rs) - (Micro * r) \div (rs + r)

(* 16 pi rho_scale r_scale^3 (ln(1 + r/r_scale) - (r_scale/r + 1)^-1) *)
NFW_enclosedMass(s, r) ==
    LET rs == r_scale(s)
    IN  MulDiv(MulDiv(s.rho_scale, MassShape(s, r), Micro), 4 * rs * rs * rs, 100)

(* factor = 1 - e^-(r/Rd) (Rd + r)/Rd, in millionths *)
NFW_withGalaxy_factor(s, r) ==
    Micro - (ExpNeg(r, s.Rd) * (s.Rd + r)) \div s.Rd

(* disk galaxy mass distribution: (1 - e^-(r/Rd) (Rd + r)/Rd) Mgalaxy *)
enclosedMass_galaxy(s, r) == MulDiv(s.Mgalaxy, NFW_withGalaxy_factor(s, r), Micro)

NFW_withGalaxy_enclosedMass(s, r) == NFW_enclosedMass(s, r) + enclosedMass_galaxy(s, r)

(* the virtual call self.enclosedMass(r) *)
enclosedMass(s, r) ==
    IF s.cls = "NFW_withGalaxy" THEN NFW_withGalaxy_enclosedMass(s, r)
                                ELSE NFW_enclosedMass(s, r)

(* rho_scale rho2rho_scale(r), in milli-DU *)
rho(s, r) == MulDiv(s.rho_scale, rho2rho_scale(s, r), Micro)

(* (G Mvir / rvir)^0.5, carried by its square *)
v_vir(s) == [sq |-> <<s.Mvir, rvir(s)>>]

(* Variant of vc on the halo's mass alone, whatever the class. *)
vc_halo_only(s, r) == [sq |-> <<NFW_enclosedMass(s, r), r>>]

(* (G Ms / r)^0.5 with Ms = self.enclosedMass(r), carried by its square *)
vc(s, r) == [sq |-> <<enclosedMass(s, r), r>>]

(* v ** 2 *)
Sq(v) == v.sq

(* a / b of two fractions *)
RatDiv(a, b) == <<a[1] * b[2], a[2] * b[1]>>

(* G Ms / r^2 *)
g(s, r) == <<enclosedMass(s, r), r * r>>

(* 2^0.5 r / vc(r), carried by its square 2 r^2 / vc(r)^2 *)
t_ff(s, r) == [sq |-> RatDiv(<<2 * r * r, 1>>, Sq(vc(s, r)))]

(* Ms / (4/3 pi r^3) / critical_density, Ms = self.enclosedMass(r);        *)
(* in hundredths                                                           *)
NFW_mean_enclosed_rho2rhocrit(s, r) == (10 * enclosedMass(s, r)) \div (r * r * r)

(* Variant of the override that keeps the galaxy in Ms. *)
mean_enclosed_withGalaxy(s, r) ==
    (10 * NFW_withGalaxy_enclosedMass(s, r)) \div (r * r * r)

(* "does not include galaxy": Ms = super().enclosedMass(r) *)
NFW_withGalaxy_mean_enclosed_rho2rhocrit(s, r) ==
    (10 * NFW_enclosedMass(s, r)) \div (r * r * r)

mean_enclosed_rho2rhocrit(s, r) ==
    IF s.cls = "NFW_withGalaxy" THEN NFW_withGalaxy_mean_enclosed_rho2rhocrit(s, r)
                                ELSE NFW_mean_enclosed_rho2rhocrit(s, r)

(* A = r_scale + r, B = ln(A / r_scale),                                   *)
(* 0.5 (-r^2 + A (-r + A B)) / (A (r - A B)); in millionths, B taken to    *)
(* five decimals                                                           *)
NFW_dlnvc_dlnR(s, r) ==
    LET A == r_scale(s) + r
        B == ln(A, r_scale(s)) \div 10
        num == -(r * r * 100000) + A * (-(r * 100000) + A * B)
        den == A * (r * 100000 - A * B)
    IN  Sign(num) * Sign(den) * MulDiv(Abs(num), 500000, Abs(den))

(* -(16 pi G rho_scale r_scale^3 / r ln(1 + r/r_scale)) *)
NFW_Phi(s, r) ==
    LET rs == r_scale(s)
    IN  <<-MulDiv(MulDiv(s.rho_scale, ln(rs + r, rs), Micro), 4 * rs * rs * rs, 100), r>>

(* super().Phi(r) + G Mgalaxy (e^-(r/Rd) - 1) / r *)
NFW_withGalaxy_Phi(s, r) ==
    <<NFW_Phi(s, r)[1] - MulDiv(s.Mgalaxy, Micro - ExpNeg(r, s.Rd), Micro), r>>

Phi(s, r) ==
    IF s.cls = "NFW_withGalaxy" THEN NFW_withGalaxy_Phi(s, r) ELSE NFW_Phi(s, r)

-----------------------------------------------------------------------------
(* Values and outcomes.  A value is [nd, v]: a scalar (nd = 0, v of        *)
(* length 1) or a one-dimensional array (nd = 1).  The outcome of a method *)
(* is the object after the call, the exception raised ("none" for a normal *)
(* return), the value returned and the lines written to standard output.   *)

Scalar(x) == [nd |-> 0, v |-> <<x>>]

Array(a) == [nd |-> 1, v |-> a]

Ok(s, val) == [self |-> s, exc |-> "none", val |-> val, out |-> <<>>]

Raise(s, e) == [self |-> s, exc |-> e, val |-> [nd |-> 0, v |-> <<>>], out |-> <<>>]

(* the elements of an array *)
Points(a) == {a[i] : i \in DOMAIN a}

(* numpy broadcasting over r of a formula f, given on the elements of r *)
Broadcast(f, r) == [nd |-> r.nd, v |-> [i \in DOMAIN r.v |-> f[r.v[i]]]]

(* Variant of GetItem that clamps the index to the last element. *)
GetItem_clamped(s, rs, i) ==
    [self |-> s, exc |-> "none",
     val |-> [nd |-> 0, v |-> <<rs[IF i < Len(rs) THEN i + 1 ELSE Len(rs)]>>], out |-> <<>>]

(* rs[i], i counted from 0 *)
GetItem(s, rs, i) ==
    IF i < Len(rs) THEN Ok(s, Scalar(rs[i + 1])) ELSE Raise(s, "IndexError")

-----------------------------------------------------------------------------
(* class NFW: construction.  cvir is given (in halves, cvir2 = 2 cvir);    *)
(* the concentration-mass relation of the cvir=None branch is not          *)
(* modelled.                                                               *)

NFW_init(Mvir, z, cvir2, fdr) ==
    LET s0 == [cls |-> "NFW", fdr |-> fdr, Mvir |-> Mvir, z |-> z, cvir2 |-> cvir2]
        dr == r_scale(s0) \div fdr
        rs == arange(dr, rvir(s0), dr)
        (* 4 pi rs^2 dr rho2rho_scale(rs), in units of 4 pi 10^-4 LU^3 *)
        terms == [i \in DOMAIN rs |->
                    MulDiv(rs[i] * rs[i] * dr, rho2rho_scale(s0, rs[i]), 100)]
    IN  [self |-> [cls |-> "NFW", fdr |-> fdr, Mvir |-> Mvir, z |-> z,
                   cvir2 |-> cvir2, dr |-> dr,
                   rho_scale |-> MulDiv(Mvir, Micro, SumSeq(terms))],
         rs |-> rs, sum |-> SumSeq(terms)]

NFW_withGalaxy_init(Mvir, z, cvir2, fdr, Mgalaxy, scale_length) ==
    LET b == NFW_init(Mvir, z, cvir2, fdr)
    IN  [self |-> [cls |-> "NFW_withGalaxy", fdr |-> fdr, Mvir |-> Mvir, z |-> z,
                   cvir2 |-> cvir2, dr |-> b.self.dr, rho_scale |-> b.self.rho_scale,
                   Mgalaxy |-> Mgalaxy, Rd |-> scale_length],
         rs |-> b.rs, sum |-> b.sum]

-----------------------------------------------------------------------------
(* class NFW: the overdensity radii and what is built on them *)

(* Variant of GridSearch that searches the descending ratios themselves. *)
GridSearch_unnegated(s, thr) ==
    LET rs == arange(s.dr, 2 * rvir(s), s.dr)
        mean_rho2rhocrit == [i \in DOMAIN rs |-> mean_enclosed_rho2rhocrit(s, rs[i])]
    IN  GetItem(s, rs, searchsorted(mean_rho2rhocrit, thr))

(* rs = arange(dr, 2 rvir, dr); rs[searchsorted(-mean_rho2rhocrit, -thr)], *)
(* thr in hundredths                                                       *)
GridSearch(s, thr) ==
    LET rs == arange(s.dr, 2 * rvir(s), s.dr)
        mean_rho2rhocrit == [i \in DOMAIN rs |-> mean_enclosed_rho2rhocrit(s, rs[i])]
    IN  GetItem(s, rs, searchsorted(Neg(mean_rho2rhocrit), -thr))

r200(s, delta) == GridSearch(s, 100 * delta)

(* Variant of r500 that keeps the delta it last searched on the instance. *)
r500_storing(s, delta) ==
    LET a == GridSearch(s, 100 * delta)
    IN  [a EXCEPT !.self = s @@ [last_delta |-> delta]]

r500(s, delta) == GridSearch(s, 100 * delta)

(* Variant of r200m that divides delta by Om(z) instead of multiplying. *)
r200m_overOm(s, delta) == GridSearch(s, (10000 * delta) \div Om(s.z))

r200m(s, delta) == GridSearch(s, delta * Om(s.z))

r500m(s, delta) == GridSearch(s, delta * Om(s.z))

NFW_M200(s, delta) ==
    LET a == r200(s, delta)
    IN  IF a.exc # "none" THEN a
        ELSE Ok(a.self, Scalar(enclosedMass(a.self, a.val.v[1])))

NFW_M200m(s, delta) ==
    LET a == r200m(s, delta)
    IN  IF a.exc # "none" THEN a
        ELSE Ok(a.self, Scalar(enclosedMass(a.self, a.val.v[1])))

(* "does not include galaxy" *)
NFW_withGalaxy_M200(s, delta) ==
    LET a == r200(s, delta)
    IN  IF a.exc # "none" THEN a
        ELSE Ok(a.self, Scalar(NFW_enclosedMass(a.self, a.val.v[1])))

NFW_withGalaxy_M200m(s, delta) ==
    LET a == r200m(s, delta)
    IN  IF a.exc # "none" THEN a
        ELSE Ok(a.self, Scalar(NFW_enclosedMass(a.self, a.val.v[1])))

M200(s, delta) ==
    IF s.cls = "NFW_withGalaxy" THEN NFW_withGalaxy_M200(s, delta) ELSE NFW_M200(s, delta)

M200m(s, delta) ==
    IF s.cls = "NFW_withGalaxy" THEN NFW_withGalaxy_M200m(s, delta) ELSE NFW_M200m(s, delta)

(* 0.5 mu mp vc(r200())^2 with mu = 4/(3 + 5 X) = 16/27, mp = 1 *)
T200(s) ==
    LET a == r200(s, 200)
    IN  IF a.exc # "none" THEN a
        ELSE LET v2 == Sq(vc(a.self, a.val.v[1]))
             IN  Ok(a.self, Scalar(<<8 * v2[1], 27 * v2[2]>>))

r_ta(s, use200m) ==
    IF ~use200m THEN Ok(s, Scalar(2 * rvir(s)))
    ELSE LET a == r200m(s, 200)
         IN  IF a.exc # "none" THEN a ELSE Ok(a.self, Scalar(2 * a.val.v[1]))

-----------------------------------------------------------------------------
(* class NFW_withGalaxy: dlnvc_dlnR *)

PrintIndex == 20

(* vc2_halo = G super().enclosedMass(r) / r *)
vc2_halo(s, r) == <<NFW_enclosedMass(s, r), r>>

(* vc2_galaxy = G enclosedMass_galaxy(r) / r *)
vc2_galaxy(s, r) == <<enclosedMass_galaxy(s, r), r>>

(* B = 0.5 r dvc2_glx_dr / vc2_galaxy, where                               *)
(* dvc2_glx_dr = (G Mgalaxy / r) / r (e^-(r/Rd) (r^2 + Rd^2 + r Rd)/Rd^2 - 1); *)
(* r and G cancel: 0.5 Mgalaxy (...) / enclosedMass_galaxy(r); millionths  *)
GalaxySlope(s, r) ==
    LET q == (ExpNeg(r, s.Rd) * (r * r + s.Rd * s.Rd + r * s.Rd)) \div (s.Rd * s.Rd)
               - Micro
    IN  SMulDiv(SMulDiv(q, s.Mgalaxy, Micro), 500000, enclosedMass_galaxy(s, r))

(* the weights AA = vc2_halo / self.vc(r)**2 and BB = vc2_galaxy / self.vc(r)**2 *)
WeightAA(s, r) == RatDiv(vc2_halo(s, r), Sq(vc(s, r)))

WeightBB(s, r) == RatDiv(vc2_galaxy(s, r), Sq(vc(s, r)))

NFW_withGalaxy_dlnvc_dlnR(s, r) ==
    LET AA == Broadcast([x \in Points(r.v) |-> WeightAA(s, x)], r)
        A  == Broadcast([x \in Points(r.v) |-> NFW_dlnvc_dlnR(s, x)], r)
        B  == Broadcast([x \in Points(r.v) |-> GalaxySlope(s, x)], r)
        BB == Broadcast([x \in Points(r.v) |-> WeightBB(s, x)], r)
        locals == [AA |-> AA, A |-> A, B |-> B, BB |-> BB]
        k == PrintIndex + 1
    IN  (* print(vc2_halo[20]**0.5, AA[20], A[20], vc2_galaxy[20]**0.5, BB[20], B[20]) *)
        IF r.nd = 0 THEN
            [self |-> s, exc |-> "TypeError", val |-> [nd |-> 0, v |-> <<>>],
             out |-> <<>>, locals |-> locals]
        ELSE IF Len(r.v) <= PrintIndex THEN
            [self |-> s, exc |-> "IndexError", val |-> [nd |-> 0, v |-> <<>>],
             out |-> <<>>, locals |-> locals]
        ELSE
            [self |-> s, exc |-> "none",
             val |-> [nd |-> r.nd,
                      v |-> [i \in DOMAIN r.v |->
                               SMulDiv(A.v[i], AA.v[i][1], AA.v[i][2])
                               + SMulDiv(B.v[i], BB.v[i][1], BB.v[i][2])]],
             out |-> << <<[sq |-> vc2_halo(s, r.v[k])], AA.v[k], A.v[k],
                          [sq |-> vc2_galaxy(s, r.v[k])], BB.v[k], B.v[k]>> >>,
             locals |-> locals]

dlnvc_dlnR(s, r) ==
    IF s.cls = "NFW_withGalaxy" THEN NFW_withGalaxy_dlnvc_dlnR(s, r)
    ELSE Ok(s, Broadcast([x \in Points(r.v) |-> NFW_dlnvc_dlnR(s, x)], r))

-----------------------------------------------------------------------------
(* class PowerLaw.  The slope m is given in halves (m2 = 2 m), so that     *)
(* x ** (2 m) is an exact fraction.                                        *)

PowerLaw_init(m2, vc_Rvir, Rvir, R_phi0_to_Rvir) ==
    [cls |-> "PowerLaw", m2 |-> m2, vc_Rvir |-> vc_Rvir, Rvir |-> Rvir,
     R_phi0 |-> R_phi0_to_Rvir * Rvir]

RECURSIVE GCD(_, _)
GCD(a, b) == IF b = 0 THEN a ELSE GCD(b, a % b)

(* (p/q) ** k for a whole k of either sign, p, q > 0; in lowest terms *)
RatPow(a, k) ==
    LET d == GCD(a[1], a[2])
        p == a[1] \div d
        q == a[2] \div d
    IN  IF k >= 0 THEN <<p ^ k, q ^ k>> ELSE <<q ^ (-k), p ^ (-k)>>

(* vc_Rvir (r/Rvir)^m, carried by its square *)
PowerLaw_vc(s, r) ==
    LET p == RatPow(<<r, s.Rvir>>, s.m2)
    IN  [sq |-> <<s.vc_Rvir * s.vc_Rvir * p[1], p[2]>>]

(* -vc_Rvir^2 / (2 m) ((R_phi0/Rvir)^(2m) - (r/Rvir)^(2m)); the division   *)
(* by 2 m raises ZeroDivisionError when m is 0.  The fraction is given     *)
(* with a positive denominator.                                            *)
PowerLaw_PhiGeneral(s, r) ==
    IF s.m2 = 0 THEN Raise(s, "ZeroDivisionError")
    ELSE Ok(s, Broadcast([x \in Points(r.v) |->
               LET P == RatPow(<<s.R_phi0, s.Rvir>>, s.m2)
                   Q == RatPow(<<x, s.Rvir>>, s.m2)
                   num == -(s.vc_Rvir * s.vc_Rvir) * (P[1] * Q[2] - Q[1] * P[2])
                   den == s.m2 * P[2] * Q[2]
               IN  <<Sign(den) * num, Abs(den)>>], r))

(* -vc_Rvir^2 ln(R_phi0 / r) *)
PowerLaw_PhiLog(s, r) ==
    Ok(s, Broadcast([x \in Points(r.v) |->
            <<-(s.vc_Rvir * s.vc_Rvir) * ln(s.R_phi0, x), Micro>>], r))

(* Variant of Phi without the m = 0 branch. *)
PowerLaw_Phi_unbranched(s, r) == PowerLaw_PhiGeneral(s, r)

PowerLaw_Phi(s, r) ==
    IF s.m2 # 0 THEN PowerLaw_PhiGeneral(s, r) ELSE PowerLaw_PhiLog(s, r)

(* return self.m *)
PowerLaw_dlnvc_dlnR(s, r) == Ok(s, Scalar(<<s.m2, 2>>))

-----------------------------------------------------------------------------
(* A call c = [method, ...arguments] on the object s, and its outcome. *)

Apply(s, c) ==
    CASE c.method = "Delta_c" -> Ok(s, Scalar(Delta_c(s)))
      [] c.method = "rvir" -> Ok(s, Scalar(rvir(s)))
      [] c.method = "r_ta" -> r_ta(s, c.use200m)
      [] c.method = "r_scale" -> Ok(s, Scalar(r_scale(s)))
      [] c.method = "rho2rho_scale" ->
             Ok(s, Broadcast([x \in Points(c.r.v) |-> rho2rho_scale(s, x)], c.r))
      [] c.method = "rho" -> Ok(s, Broadcast([x \in Points(c.r.v) |-> rho(s, x)], c.r))
      [] c.method = "enclosedMass" ->
             Ok(s, Broadcast([x \in Points(c.r.v) |-> enclosedMass(s, x)], c.r))
      [] c.method = "v_vir" -> Ok(s, Scalar(v_vir(s)))
      [] c.method = "vc" -> Ok(s, Broadcast([x \in Points(c.r.v) |-> vc(s, x)], c.r))
      [] c.method = "mean_enclosed_rho2rhocrit" ->
             Ok(s, Broadcast([x \in Points(c.r.v) |-> mean_enclosed_rho2rhocrit(s, x)], c.r))
      [] c.method = "r200" -> r200(s, c.delta)
      [] c.method = "r500" -> r500(s, c.delta)
      [] c.method = "r200m" -> r200m(s, c.delta)
      [] c.method = "r500m" -> r500m(s, c.delta)
      [] c.method = "M200" -> M200(s, c.delta)
      [] c.method = "M200m" -> M200m(s, c.delta)
      [] c.method = "g" -> Ok(s, Broadcast([x \in Points(c.r.v) |-> g(s, x)], c.r))
      [] c.method = "t_ff" -> Ok(s, Broadcast([x \in Points(c.r.v) |-> t_ff(s, x)], c.r))
      [] c.method = "T200" -> T200(s)
      [] c.method = "dlnvc_dlnR" -> dlnvc_dlnR(s, c.r)
      [] c.method = "Phi" -> Ok(s, Broadcast([x \in Points(c.r.v) |-> Phi(s, x)], c.r))
      [] c.method = "enclosedMass_galaxy" ->
             Ok(s, Broadcast([x \in Points(c.r.v) |-> enclosedMass_galaxy(s, x)], c.r))
      [] c.method = "PowerLaw.vc" ->
             Ok(s, Broadcast([x \in Points(c.r.v) |-> PowerLaw_vc(s, x)], c.r))
      [] c.method = "PowerLaw.Phi" -> PowerLaw_Phi(s, c.r)
      [] c.method = "PowerLaw.dlnvc_dlnR" -> PowerLaw_dlnvc_dlnR(s, c.r)

(* what the caller sees of an outcome *)
Returned(o) ==
    IF "locals" \in DOMAIN o
    THEN [exc |-> o.exc, val |-> o.val, out |-> o.out, locals |-> o.locals]
    ELSE [exc |-> o.exc, val |-> o.val, out |-> o.out]

-----------------------------------------------------------------------------
(* The state machine: an object is constructed once; then callers call its *)
(* methods, one call at a time, each returning before the next.            *)

NoObject == [cls |-> "none"]
NoCall == [method |-> "none"]
NoReturn == [exc |-> "none"]

Init ==
    /\ pc = "new"
    /\ self = NoObject
    /\ built = NoObject
    /\ ctor = NoCall
    /\ call = NoCall
    /\ result = NoReturn

Halo == {"NFW", "NFW_withGalaxy"}

(* The masses explored are those whose virial radius is a whole number of  *)
(* LU, with the scale radius and the radial step whole too; and cvir _fdr  *)
(* is above 1: at or below 1 the grid of __init__ is empty, its sum is 0   *)
(* and the division that gives rho_scale is a division by zero.            *)
ValidGrid(Rvir, cvir2, fdr) ==
    /\ (2 * Rvir) % cvir2 = 0
    /\ ((2 * Rvir) \div cvir2) % fdr = 0
    /\ cvir2 * fdr > 2

New_NFW ==
    /\ pc = "new"
    /\ \E Rvir \in 1..MaxRvir, z \in Redshifts, cvir2 \in 2..MaxCvir2, fdr \in 1..MaxFdr :
         /\ ValidGrid(Rvir, cvir2, fdr)
         /\ LET Mvir == Delta_c([z |-> z]) * Rvir * Rvir * Rvir
                b == NFW_init(Mvir, z, cvir2, fdr)
            IN  /\ self' = b.self
                /\ built' = b.self
                /\ ctor' = [method |-> "NFW", Mvir |-> Mvir, z |-> z, cvir2 |-> cvir2,
                            fdr |-> fdr, rs |-> b.rs, sum |-> b.sum]
    /\ pc' = "ready"
    /\ UNCHANGED <<call, result>>

New_NFW_withGalaxy ==
    /\ pc = "new"
    /\ \E Rvir \in 1..MaxRvir, z \in Redshifts, cvir2 \in 2..MaxCvir2, fdr \in 1..MaxFdr,
          Mgalaxy \in {2000, 10000}, Rd \in {1, 4} :
         /\ ValidGrid(Rvir, cvir2, fdr)
         /\ LET Mvir == Delta_c([z |-> z]) * Rvir * Rvir * Rvir
                b == NFW_withGalaxy_init(Mvir, z, cvir2, fdr, Mgalaxy, Rd)
            IN  /\ self' = b.self
                /\ built' = b.self
                /\ ctor' = [method |-> "NFW_withGalaxy", Mvir |-> Mvir, z |-> z,
                            cvir2 |-> cvir2, fdr |-> fdr, Mgalaxy |-> Mgalaxy,
                            scale_length |-> Rd, rs |-> b.rs, sum |-> b.sum]
    /\ pc' = "ready"
    /\ UNCHANGED <<call, result>>

New_PowerLaw ==
    /\ pc = "new"
    /\ \E m2 \in -MaxSlope2..MaxSlope2, vc_Rvir \in 1..MaxVc, Rvir \in 1..MaxPowerLawRvir,
          R_phi0_to_Rvir \in {1, 10} :
         LET s == PowerLaw_init(m2, vc_Rvir, Rvir, R_phi0_to_Rvir)
         IN  /\ self' = s
             /\ built' = s
             /\ ctor' = [method |-> "PowerLaw", m2 |-> m2, vc_Rvir |-> vc_Rvir,
                         Rvir |-> Rvir, R_phi0_to_Rvir |-> R_phi0_to_Rvir]
    /\ pc' = "ready"
    /\ UNCHANGED <<call, result>>

(* The radii a caller passes: a scalar, or an array of 1, 2 or 3 radii     *)
(* (multiples of the radial step); dlnvc_dlnR is also passed arrays that   *)
(* end just before and at index 20.                                        *)
RadiusArray(s, n) == Array([i \in 1..n |-> s.dr * (1 + (i % 3))])

RadiusArgs(s) == {Scalar(s.dr)} \cup {RadiusArray(s, n) : n \in 1..3}

SlopeArgs(s) == RadiusArgs(s) \cup {RadiusArray(s, n) : n \in {PrintIndex, PrintIndex + 1}}

PowerLawArgs(s) ==
    {Scalar(1), Scalar(s.Rvir), Scalar(s.R_phi0), Scalar(s.R_phi0 + 1),
     Array(<<1, s.Rvir, s.R_phi0>>)}

Deltas == {10, 200, 500}

(* The call c returns (or raises) with outcome o. *)
Finish(c, o) ==
    /\ pc = "ready"
    /\ pc' = "returned"
    /\ call' = c
    /\ self' = o.self
    /\ result' = Returned(o)
    /\ UNCHANGED <<built, ctor>>

Call_Delta_c ==
    self.cls \in Halo /\ Finish([method |-> "Delta_c"], Ok(self, Scalar(Delta_c(self))))

Call_rvir ==
    self.cls \in Halo /\ Finish([method |-> "rvir"], Ok(self, Scalar(rvir(self))))

Call_r_scale ==
    self.cls \in Halo /\ Finish([method |-> "r_scale"], Ok(self, Scalar(r_scale(self))))

Call_v_vir ==
    self.cls \in Halo /\ Finish([method |-> "v_vir"], Ok(self, Scalar(v_vir(self))))

Call_T200 ==
    self.cls \in Halo /\ Finish([method |-> "T200"], T200(self))

Call_r_ta ==
    self.cls \in Halo /\ \E b \in BOOLEAN :
        Finish([method |-> "r_ta", use200m |-> b], r_ta(self, b))

Call_rho2rho_scale ==
    self.cls \in Halo /\ \E r \in RadiusArgs(self) :
        Finish([method |-> "rho2rho_scale", r |-> r],
               Ok(self, Broadcast([x \in Points(r.v) |-> rho2rho_scale(self, x)], r)))

Call_rho ==
    self.cls \in Halo /\ \E r \in RadiusArgs(self) :
        Finish([method |-> "rho", r |-> r],
               Ok(self, Broadcast([x \in Points(r.v) |-> rho(self, x)], r)))

Call_enclosedMass ==
    self.cls \in Halo /\ \E r \in RadiusArgs(self) :
        Finish([method |-> "enclosedMass", r |-> r],
               Ok(self, Broadcast([x \in Points(r.v) |-> enclosedMass(self, x)], r)))

Call_vc ==
    self.cls \in Halo /\ \E r \in RadiusArgs(self) :
        Finish([method |-> "vc", r |-> r],
               Ok(self, Broadcast([x \in Points(r.v) |-> vc(self, x)], r)))

Call_mean_enclosed_rho2rhocrit ==
    self.cls \in Halo /\ \E r \in RadiusArgs(self) :
        Finish([method |-> "mean_enclosed_rho2rhocrit", r |-> r],
               Ok(self, Broadcast([x \in Points(r.v) |->
                       mean_enclosed_rho2rhocrit(self, x)], r)))

Call_g ==
    self.cls \in Halo /\ \E r \in RadiusArgs(self) :
        Finish([method |-> "g", r |-> r],
               Ok(self, Broadcast([x \in Points(r.v) |-> g(self, x)], r)))

Call_t_ff ==
    self.cls \in Halo /\ \E r \in RadiusArgs(self) :
        Finish([method |-> "t_ff", r |-> r],
               Ok(self, Broadcast([x \in Points(r.v) |-> t_ff(self, x)], r)))

Call_dlnvc_dlnR ==
    self.cls \in Halo /\ \E r \in SlopeArgs(self) :
        Finish([method |-> "dlnvc_dlnR", r |-> r], dlnvc_dlnR(self, r))

Call_Phi ==
    self.cls \in Halo /\ \E r \in RadiusArgs(self) :
        Finish([method |-> "Phi", r |-> r],
               Ok(self, Broadcast([x \in Points(r.v) |-> Phi(self, x)], r)))

Call_enclosedMass_galaxy ==
    self.cls = "NFW_withGalaxy" /\ \E r \in RadiusArgs(self) :
        Finish([method |-> "enclosedMass_galaxy", r |-> r],
               Ok(self, Broadcast([x \in Points(r.v) |-> enclosedMass_galaxy(self, x)], r)))

Call_r200 ==
    self.cls \in Halo /\ \E d \in Deltas :
        Finish([method |-> "r200", delta |-> d], r200(self, d))

Call_r500 ==
    self.cls \in Halo /\ \E d \in Deltas :
        Finish([method |-> "r500", delta |-> d], r500(self, d))

Call_r200m ==
    self.cls \in Halo /\ \E d \in Deltas :
        Finish([method |-> "r200m", delta |-> d], r200m(self, d))

Call_r500m ==
    self.cls \in Halo /\ \E d \in Deltas :
        Finish([method |-> "r500m", delta |-> d], r500m(self, d))

Call_M200 ==
    self.cls \in Halo /\ \E d \in Deltas :
        Finish([method |-> "M200", delta |-> d], M200(self, d))

Call_M200m ==
    self.cls \in Halo /\ \E d \in Deltas :
        Finish([method |-> "M200m", delta |-> d], M200m(self, d))

Call_PowerLaw_vc ==
    self.cls = "PowerLaw" /\ \E r \in PowerLawArgs(self) :
        Finish([method |-> "PowerLaw.vc", r |-> r],
               Ok(self, Broadcast([x \in Points(r.v) |-> PowerLaw_vc(self, x)], r)))

Call_PowerLaw_Phi ==
    self.cls = "PowerLaw" /\ \E r \in PowerLawArgs(self) :
        Finish([method |-> "PowerLaw.Phi", r |-> r], PowerLaw_Phi(self, r))

Call_PowerLaw_dlnvc_dlnR ==
    self.cls = "PowerLaw" /\ \E r \in PowerLawArgs(self) :
        Finish([method |-> "PowerLaw.dlnvc_dlnR", r |-> r], PowerLaw_dlnvc_dlnR(self, r))

(* the caller has taken the result (or caught the exception) *)
Return ==
    /\ pc = "returned"
    /\ pc' = "ready"
    /\ call' = NoCall
    /\ result' = NoReturn
    /\ UNCHANGED <<self, built, ctor>>

Next ==
    \/ New_NFW \/ New_NFW_withGalaxy \/ New_PowerLaw
    \/ Call_Delta_c \/ Call_rvir \/ Call_r_scale \/ Call_v_vir \/ Call_T200 \/ Call_r_ta
    \/ Call_rho2rho_scale \/ Call_rho \/ Call_enclosedMass \/ Call_vc
    \/ Call_mean_enclosed_rho2rhocrit \/ Call_g \/ Call_t_ff \/ Call_dlnvc_dlnR
    \/ Call_Phi \/ Call_enclosedMass_galaxy
    \/ Call_r200 \/ Call_r500 \/ Call_r200m \/ Call_r500m \/ Call_M200 \/ Call_M200m
    \/ Call_PowerLaw_vc \/ Call_PowerLaw_Phi \/ Call_PowerLaw_dlnvc_dlnR
    \/ Return

Spec == Init /\ [][Next]_vars

-----------------------------------------------------------------------------
(* Properties.  built is the object as the constructor returned it, ctor   *)
(* the constructor's arguments with the grid it summed; call and result    *)
(* are the last call and what it returned.                                 *)

HaloBuilt == pc # "new" /\ built.cls \in Halo

HaloReturned == pc = "returned" /\ built.cls \in Halo


(* the grid of the overdensity searches, and the ratios on it *)
SearchGrid(s) == arange(s.dr, 2 * rvir(s), s.dr)

GridRatios(s) ==
    LET rs == SearchGrid(s)
    IN  [i \in DOMAIN rs |-> mean_enclosed_rho2rhocrit(s, rs[i])]

Decreasing(a) == \A i \in 1..(Len(a) - 1) : a[i] >= a[i + 1]

Searches == {"r200", "r500", "r200m", "r500m"}

SearchCallers == {"M200", "M200m", "T200", "r_ta"}

(* the threshold a call searches for, in hundredths: delta, or delta Om(z) *)
(* for the 'm' variants; T200 and r_ta use the default delta of 200        *)
SearchThreshold(s, c) ==
    CASE c.method \in {"r200", "r500", "M200"} -> 100 * c.delta
      [] c.method \in {"r200m", "r500m", "M200m"} -> c.delta * Om(s.z)
      [] c.method = "T200" -> 100 * 200
      [] c.method = "r_ta" -> 200 * Om(s.z)

(* the call runs one of the searches *)
Searching(c) ==
    /\ c.method \in Searches \cup SearchCallers
    /\ c.method = "r_ta" => c.use200m

(* the plain NFW halo of the same (Mvir, z, cvir, _fdr) *)
PlainNFW == NFW_init(ctor.Mvir, ctor.z, ctor.cvir2, ctor.fdr).self

-----------------------------------------------------------------------------
C2_FirstAtOrBelow ==
    (HaloReturned /\ call.method \in Searches /\ result.exc = "none"
       /\ Decreasing(GridRatios(built))) =>
        LET rs == SearchGrid(built)
            ratios == GridRatios(built)
            thr == SearchThreshold(built, call)
            x == result.val.v[1]
        IN  /\ result.val.nd = 0
            /\ \E k \in DOMAIN rs :
                 /\ x = rs[k]
                 /\ x = k * built.dr
                 /\ ratios[k] <= thr
                 /\ \A j \in 1..(k - 1) : ratios[j] > thr
            /\ thr >= ratios[1] => x = built.dr

(* a search has returned a grid radius beyond the first *)
C2_Witness ==
    /\ HaloReturned /\ call.method \in Searches /\ result.exc = "none"
    /\ Decreasing(GridRatios(built))
    /\ result.val.v[1] >= 3 * built.dr
    /\ GridRatios(built)[1] > SearchThreshold(built, call)

C4_HaloOnly ==
    (pc = "returned" /\ built.cls = "NFW_withGalaxy") =>
        /\ call.method \in Searches \cup {"mean_enclosed_rho2rhocrit", "M200", "M200m"}
             => result = Returned(Apply(PlainNFW, call))
        /\ call.method = "enclosedMass"
             => \A i \in DOMAIN call.r.v :
                   result.val.v[i] = NFW_enclosedMass(PlainNFW, call.r.v[i])
                                    + enclosedMass_galaxy(built, call.r.v[i])

(* M200 has returned, on a halo with a galaxy, less than the total mass    *)
(* enclosed at r200                                                        *)
C4_Witness ==
    /\ pc = "returned" /\ built.cls = "NFW_withGalaxy"
    /\ call.method = "M200" /\ result.exc = "none"
    /\ result.val.v[1] < enclosedMass(built, r200(built, call.delta).val.v[1])

(* the methods of a halo that take r *)
TakesRadius ==
    {"rho2rho_scale", "rho", "enclosedMass", "vc", "mean_enclosed_rho2rhocrit",
     "g", "t_ff", "dlnvc_dlnR", "Phi", "enclosedMass_galaxy"}

(* C5: every method of a halo that takes r, NFW_withGalaxy.dlnvc_dlnR      *)
(* included, returns without an error a result of the shape of r, writes   *)
(* nothing and changes nothing, for a scalar r and for arrays of any       *)
(* length.                                                                 *)
C5_PureElementwise ==
    (HaloReturned /\ call.method \in TakesRadius) =>
        /\ result.exc = "none"
        /\ result.val.nd = call.r.nd
        /\ Len(result.val.v) = Len(call.r.v)
        /\ result.out = <<>>
        /\ self = built

(* NFW_withGalaxy.dlnvc_dlnR has returned for 21 radii, and has written a  *)
(* line                                                                    *)
C5_Witness ==
    /\ pc = "returned" /\ built.cls = "NFW_withGalaxy" /\ call.method = "dlnvc_dlnR"
    /\ Len(call.r.v) = PrintIndex + 1
    /\ result.exc = "none"
    /\ Len(result.out) = 1

(* C6 as written: when Om(z) < 1 and both searches return, r200(200) is    *)
(* strictly inside r200m(200).                                             *)
C6_StrictlyOutward ==
    (HaloReturned /\ call.method = "r200m" /\ call.delta = 200 /\ result.exc = "none"
       /\ Om(built.z) < 100 /\ r200(built, 200).exc = "none") =>
        r200(built, 200).val.v[1] < result.val.v[1]

(* C6, amended: when Om(z) < 1 and both searches return, r200(200) is      *)
(* never outside r200m(200); the two are the same grid radius when no grid *)
(* point has its ratio between the two thresholds.                         *)
C6_NeverInward ==
    (HaloReturned /\ call.method = "r200m" /\ call.delta = 200 /\ result.exc = "none"
       /\ Om(built.z) < 100 /\ r200(built, 200).exc = "none") =>
        /\ r200(built, 200).val.v[1] <= result.val.v[1]
        /\ r200(built, 200).val.v[1] = result.val.v[1]
             <=> \A i \in DOMAIN GridRatios(built) :
                    ~(/\ GridRatios(built)[i] <= 100 * 200
                      /\ GridRatios(built)[i] > 200 * Om(built.z))

(* r200m(200) has returned a grid radius strictly outside r200(200) *)
C6_Witness ==
    /\ HaloReturned /\ call.method = "r200m" /\ call.delta = 200 /\ result.exc = "none"
    /\ Om(built.z) < 100 /\ r200(built, 200).exc = "none"
    /\ r200(built, 200).val.v[1] < result.val.v[1]

C8_Anchored ==
    (pc = "returned" /\ call.method = "PowerLaw.Phi") =>
        /\ built.R_phi0 = ctor.R_phi0_to_Rvir * ctor.Rvir
        /\ result.exc = "none"
        /\ result = Returned(IF ctor.m2 = 0 THEN PowerLaw_PhiLog(built, call.r)
                                         ELSE PowerLaw_PhiGeneral(built, call.r))
        /\ \A i \in DOMAIN call.r.v :
             /\ result.val.v[i][2] > 0
             /\ call.r.v[i] = built.R_phi0 => result.val.v[i][1] = 0
             /\ (0 < call.r.v[i] /\ call.r.v[i] <= built.R_phi0) => result.val.v[i][1] <= 0

(* Phi has returned 0 at R_phi0 = 10 Rvir for m = 0 *)
C8_Witness ==
    /\ pc = "returned" /\ call.method = "PowerLaw.Phi"
    /\ ctor.m2 = 0 /\ ctor.R_phi0_to_Rvir = 10
    /\ call.r = Scalar(built.R_phi0)
    /\ result.exc = "none" /\ result.val.v[1][1] = 0

(* C9: when the threshold is below the ratio at every grid point, the      *)
(* search position is the grid's length, the lookup raises IndexError, the *)
(* caller of r200 .. r500m, M200, M200m, T200 or r_ta(use200m=True) gets   *)
(* that exception and no value, and the halo is unchanged.                 *)
C9_NoCrossingRaises ==
    (HaloReturned /\ Searching(call)
       /\ \A i \in DOMAIN GridRatios(built) :
            SearchThreshold(built, call) < GridRatios(built)[i]) =>
        /\ searchsorted(Neg(GridRatios(built)), -SearchThreshold(built, call))
             = Len(SearchGrid(built))
        /\ result.exc = "IndexError"
        /\ result.val.v = <<>>
        /\ self = built

(* a method built on a search has raised for a threshold below every ratio *)
C9_Witness ==
    /\ HaloReturned /\ call.method \in SearchCallers /\ Searching(call)
    /\ \A i \in DOMAIN GridRatios(built) :
         SearchThreshold(built, call) < GridRatios(built)[i]
    /\ result.exc = "IndexError"

====
